---- MODULE Spec2Model ----
(***************************************************************************)
(* Model of the anime quote verification workflow of dooshen-study:        *)
(* the steps search-quotes, collect-quotes, verify-quote and               *)
(* generate-verification-report, chained by                                *)
(* animeQuoteVerificationWorkflow (specification Spec), of the quote       *)
(* tools verifyAnimeQuoteTool, getQuotesByAnimeTool and                    *)
(* getQuotesByCharacterTool (specification SpecTool), of verify-quote      *)
(* applied to a given pool (SpecVerify), of the A2A route                  *)
(* POST /a2a/agent/:agentId (SpecRoute) and of a2aCommunicationTool        *)
(* (SpecA2A).                                                              *)
(*                                                                         *)
(* A JavaScript string that the code inspects character by character (a    *)
(* quote text) is a sequence of one-character strings.  Names that the     *)
(* code only passes along (anime titles, character names) are TLA+         *)
(* strings.  A JavaScript value that may be undefined is a tagged record.  *)
(***************************************************************************)
EXTENDS Integers, Sequences, FiniteSets, TLC

VARIABLES pc, inputData, upstream, apiFormat, characterQuotes, animeQuotes, allQuotes,
          matches, verdict, requests, failedStep, report,
          tool, context, toolPc, quotes, toolResult,
          routePc, agentId, requestBody, response, generateCalls,
          currentTask, attempts

\* The state of the workflow's steps, and the state of a tool's execute.
workflowVars == <<pc, inputData, characterQuotes, animeQuotes, allQuotes,
                  matches, verdict, failedStep, report>>

toolVars == <<tool, context, toolPc, quotes, toolResult>>

\* The state of the A2A route handler, and of the polling loop of
\* a2aCommunicationTool.
routeVars == <<routePc, agentId, requestBody, response, generateCalls>>

a2aVars == <<currentTask, attempts>>

vars == <<pc, inputData, upstream, apiFormat, characterQuotes, animeQuotes, allQuotes,
          matches, verdict, requests, failedStep, report,
          tool, context, toolPc, quotes, toolResult,
          routePc, agentId, requestBody, response, generateCalls,
          currentTask, attempts>>

-----------------------------------------------------------------------------
(* JavaScript values *)

UNDEFINED == [type |-> "undefined"]

Str(s) == [type |-> "string", val |-> s]

Arr(elems) == [type |-> "array", elems |-> elems]

\* As Truthy, testing only that the value is defined (v !== undefined).
TruthyIfDefined(v) == v.type = "string"

\* if (v): undefined and the empty string are falsy, other strings truthy.
Truthy(v) == v.type = "string" /\ v.val # ""

\* The same test on a string held as a sequence of characters (a quote text).
TruthyText(v) == v.type = "string" /\ v.val # <<>>

-----------------------------------------------------------------------------
(* String.prototype functions used by verify-quote *)

UpperLetters == <<"A", "B", "C", "D", "E", "F", "G", "H", "I", "J", "K", "L", "M",
                  "N", "O", "P", "Q", "R", "S", "T", "U", "V", "W", "X", "Y", "Z">>

LowerLetters == <<"a", "b", "c", "d", "e", "f", "g", "h", "i", "j", "k", "l", "m",
                  "n", "o", "p", "q", "r", "s", "t", "u", "v", "w", "x", "y", "z">>

WhiteSpace == {" ", "\t", "\n"}

LowerOf == [c \in {UpperLetters[i] : i \in 1..Len(UpperLetters)} |->
              LowerLetters[CHOOSE i \in 1..Len(UpperLetters) : UpperLetters[i] = c]]

toLowerChar(c) == IF c \in DOMAIN LowerOf THEN LowerOf[c] ELSE c

toLowerCase(s) == [i \in 1..Len(s) |-> toLowerChar(s[i])]

RECURSIVE trimStart(_)
trimStart(s) ==
    IF s # <<>> /\ Head(s) \in WhiteSpace THEN trimStart(Tail(s)) ELSE s

RECURSIVE trimEnd(_)
trimEnd(s) ==
    IF s # <<>> /\ s[Len(s)] \in WhiteSpace
    THEN trimEnd(SubSeq(s, 1, Len(s) - 1))
    ELSE s

\* As trim, removing leading white space only (trimStart).
trimLeadingOnly(s) == trimStart(s)

trim(s) == trimEnd(trimStart(s))

\* s.includes(sub): sub occurs in s at some offset; "" occurs in every string.
includes(s, sub) ==
    \E off \in 0..(Len(s) - Len(sub)) : SubSeq(s, off + 1, off + Len(sub)) = sub

\* s.split(/\s+/): the pieces between maximal runs of white space; a string
\* that starts (ends) with white space yields a leading (trailing) "" piece,
\* and "" yields the one piece "".
RECURSIVE splitFrom(_, _, _)
splitFrom(s, i, piece) ==
    IF i > Len(s) THEN <<piece>>
    ELSE IF s[i] \in WhiteSpace
         THEN IF i > 1 /\ s[i - 1] \in WhiteSpace
              THEN splitFrom(s, i + 1, piece)
              ELSE <<piece>> \o splitFrom(s, i + 1, <<>>)
         ELSE splitFrom(s, i + 1, Append(piece, s[i]))

split(s) == splitFrom(s, 1, <<>>)

\* new Set(array)
SetOf(seq) == {seq[i] : i \in 1..Len(seq)}

-----------------------------------------------------------------------------
(* Bounds and the inputs drawn for a run *)

\* The longest list of items one upstream response carries.
MaxItems == 3

\* The quotes a caller asks about.
Quotes ==
    { <<"a", " ", "b", " ", "c">>,
      <<"f", " ", "b", " ", "c", " ", "d", " ", "g">>,
      <<"a", " ", "b">> }

\* What the upstream holds for the character and for the anime asked about,
\* as (text, anime, character).
UpstreamItem(text, anime, character) ==
    [text |-> text, anime |-> anime, character |-> character]

\* A dataset whose six texts all differ.
DistinctDataset ==
    [character |->
       { UpstreamItem(<<"a", " ", "b", " ", "c">>, "Death Note", "Light"),
         UpstreamItem(<<"a", " ", "b">>, "Death Note", "Light"),
         UpstreamItem(<<"a", " ", "b", " ", "d">>, "Death Note", "Light") },
     anime |->
       { UpstreamItem(<<" ", "A", " ", "B", " ", "C">>, "Death Note", "Ryuk"),
         UpstreamItem(<<"a", " ", "b", " ", "c", " ", "d", " ", "e">>, "Death Note", "L"),
         UpstreamItem(<<"c", " ", "b", " ", "a">>, "Death Note", "Misa") }]

\* A dataset that holds one text twice for the character, under different
\* attributions, and once more for the anime.
OverlappingDataset ==
    [character |->
       { UpstreamItem(<<"a", " ", "b", " ", "c">>, "Death Note", "Light"),
         UpstreamItem(<<"a", " ", "b", " ", "c">>, "Death Note Relight", "Light"),
         UpstreamItem(<<"a", " ", "b">>, "Death Note", "Light") },
     anime |->
       { UpstreamItem(<<"a", " ", "b", " ", "c">>, "Death Note", "Kira"),
         UpstreamItem(<<"a", " ", "b", " ", "c", " ", "d", " ", "e">>, "Death Note", "L"),
         UpstreamItem(<<"c", " ", "b", " ", "a">>, "Death Note", "Misa") }]

Datasets == { DistinctDataset, OverlappingDataset }

ItemLists(items) == UNION { [1..n -> items] : n \in 0..MaxItems }

\* The optional character / anime field of the workflow input.
NameInputs(name) == { UNDEFINED, Str(""), Str(name) }

\* The response shapes the quote API has been seen to use.
ApiFormats == { "wrapper", "arrayQuote", "arrayContent" }

\* 2xx bodies in neither shape: null, a scalar, an object without data, and a
\* wrapper whose data is not an array.
UnexpectedFormats == { "null", "scalar", "objectNoData", "wrapperBadData" }

\* How one fetch of the quote API ends.
FetchOutcomes == { "network-error", "non-2xx", "malformed-json", "ok" }

-----------------------------------------------------------------------------
(* The upstream quote API *)

\* One item of the response body in the given format.  A property the format
\* does not carry reads as undefined.
BodyItem(format, item) ==
    CASE format = "arrayQuote" ->
           [quote |-> Str(item.text), content |-> UNDEFINED,
            anime |-> Str(item.anime), character |-> Str(item.character)]
      [] format = "arrayContent" ->
           [quote |-> UNDEFINED, content |-> Str(item.text),
            anime |-> Str(item.anime), character |-> Str(item.character)]
      [] format = "wrapper" ->
           [quote |-> UNDEFINED, content |-> Str(item.text),
            anime |-> [type |-> "object", name |-> Str(item.anime), altName |-> UNDEFINED],
            character |-> [type |-> "object", name |-> Str(item.character)]]

\* The parsed body of a 2xx response: in a format of ApiFormats, or in one of
\* UnexpectedFormats, which carries no quotes.
Body(format, items) ==
    LET elems == [i \in 1..Len(items) |-> BodyItem(format, items[i])]
    IN  CASE format = "wrapper" ->
               [type |-> "object", status |-> Str("success"), data |-> Arr(elems)]
          [] format \in { "arrayQuote", "arrayContent" } -> Arr(elems)
          [] format = "null" -> [type |-> "null"]
          [] format = "scalar" -> [type |-> "number", val |-> 42]
          [] format = "objectNoData" ->
               [type |-> "object", status |-> Str("success"), data |-> UNDEFINED]
          [] format = "wrapperBadData" ->
               [type |-> "object", status |-> Str("success"), data |-> Str("none")]

\* The number of items in the body of a response: a request that fails or is
\* answered non-2xx or with malformed JSON delivers none.
ItemCount(outcome, items) == IF outcome = "ok" THEN Len(items) ELSE 0

\* try { fetch; if (response.ok) { data = await response.json();
\*       ... = data.map(quote => ({quote: quote.quote, anime: quote.anime,
\*       character: quote.character})) } } catch { }
\* quotes is the mapped list; threw says the try block threw before the
\* assignment (the catch swallows it), ok says response.ok was reached and true.
MappedQuotes(outcome, body) ==
    CASE outcome = "network-error" -> [threw |-> TRUE, ok |-> FALSE, quotes |-> <<>>]
      [] outcome = "non-2xx" -> [threw |-> FALSE, ok |-> FALSE, quotes |-> <<>>]
      [] outcome = "malformed-json" -> [threw |-> TRUE, ok |-> TRUE, quotes |-> <<>>]
      [] outcome = "ok" ->
           IF body.type = "array"
           THEN [threw |-> FALSE, ok |-> TRUE,
                 quotes |-> [i \in 1..Len(body.elems) |->
                               [quote |-> body.elems[i].quote,
                                anime |-> body.elems[i].anime,
                                character |-> body.elems[i].character]]]
           ELSE \* data.map is not a function: TypeError, caught
                [threw |-> TRUE, ok |-> TRUE, quotes |-> <<>>]

-----------------------------------------------------------------------------
(* Step 1: search-quotes *)

NoVerdict == [verified |-> FALSE, confidence |-> "none", matches |-> <<>>, message |-> ""]

\* The tools are not called by the workflow: their state stays as constructed.
NoContext == [quote |-> UNDEFINED, character |-> UNDEFINED, anime |-> UNDEFINED]

NoResult == [returned |-> FALSE]

\* No request has come to the A2A route, and no task is being polled.
NoResponse == [status |-> 0]

NoTask == [state |-> "none"]

RouteIdle ==
    /\ routePc = "idle"
    /\ agentId = "none"
    /\ requestBody = UNDEFINED
    /\ response = NoResponse
    /\ generateCalls = 0

A2AIdle == currentTask = NoTask /\ attempts = 0

Init ==
    /\ pc = "search-quotes"
    /\ inputData \in [quote : Quotes,
                      character : NameInputs("Light"),
                      anime : NameInputs("Death Note")]
    /\ upstream \in Datasets
    /\ apiFormat \in ApiFormats
    /\ characterQuotes = <<>>
    /\ animeQuotes = <<>>
    /\ allQuotes = <<>>
    /\ matches = <<>>
    /\ verdict = NoVerdict
    /\ requests = <<>>
    /\ failedStep = "none"
    /\ report = ""
    /\ tool = "none"
    /\ context = NoContext
    /\ toolPc = "idle"
    /\ quotes = <<>>
    /\ toolResult = NoResult
    /\ RouteIdle
    /\ A2AIdle

SearchQuotes ==
    /\ pc = "search-quotes"
    /\ IF Truthy(inputData.character)
       THEN \E outcome \in FetchOutcomes, items \in ItemLists(upstream.character) :
              LET r == MappedQuotes(outcome, Body(apiFormat, items))
              IN  /\ characterQuotes' = r.quotes
                  /\ requests' = Append(requests,
                                        [dimension |-> "character", outcome |-> outcome,
                                         items |-> ItemCount(outcome, items)])
       ELSE /\ characterQuotes' = <<>>
            /\ requests' = requests
    /\ pc' = "collect-quotes"
    /\ UNCHANGED <<inputData, upstream, apiFormat, animeQuotes, allQuotes, matches, verdict,
                   failedStep, report>>
    /\ UNCHANGED <<toolVars, routeVars, a2aVars>>

-----------------------------------------------------------------------------
(* Step 2: collect-quotes *)

\* for (const quote of animeQuotes) if (!existingQuotes.has(quote.quote)) allQuotes.push(quote)
\* existingQuotes is built once, before the loop.
RECURSIVE mergeQuotes(_, _, _)
mergeQuotes(all, existingQuotes, rest) ==
    IF rest = <<>> THEN all
    ELSE IF Head(rest).quote \notin existingQuotes
         THEN mergeQuotes(Append(all, Head(rest)), existingQuotes, Tail(rest))
         ELSE mergeQuotes(all, existingQuotes, Tail(rest))

CollectQuotes ==
    /\ pc = "collect-quotes"
    /\ IF Truthy(inputData.anime)
       THEN \E outcome \in FetchOutcomes, items \in ItemLists(upstream.anime) :
              LET r == MappedQuotes(outcome, Body(apiFormat, items))
                  existingQuotes == SetOf([i \in 1..Len(characterQuotes) |->
                                             characterQuotes[i].quote])
              IN  /\ animeQuotes' = r.quotes
                  /\ allQuotes' = IF r.ok /\ ~r.threw
                                  THEN mergeQuotes(characterQuotes, existingQuotes, r.quotes)
                                  ELSE characterQuotes
                  /\ requests' = Append(requests,
                                        [dimension |-> "anime", outcome |-> outcome,
                                         items |-> ItemCount(outcome, items)])
       ELSE /\ animeQuotes' = <<>>
            /\ allQuotes' = characterQuotes
            /\ requests' = requests
    /\ pc' = "verify-quote"
    /\ UNCHANGED <<inputData, upstream, apiFormat, characterQuotes, matches, verdict, failedStep, report>>
    /\ UNCHANGED <<toolVars, routeVars, a2aVars>>

-----------------------------------------------------------------------------
(* Step 3: verify-quote *)

\* matches.slice(0, 5)
MatchLimit == 5

\* As MapSet, leaving the value of a key already present as it is.
MapSetKeepFirst(map, key, value) ==
    IF \E i \in 1..Len(map) : map[i].key = key
    THEN map
    ELSE Append(map, [key |-> key, value |-> value])

\* map.set(key, value): a key already present keeps its place and takes the
\* new value; a new key goes to the end.
MapSet(map, key, value) ==
    IF \E i \in 1..Len(map) : map[i].key = key
    THEN [i \in 1..Len(map) |->
            IF map[i].key = key THEN [key |-> key, value |-> value] ELSE map[i]]
    ELSE Append(map, [key |-> key, value |-> value])

RECURSIVE MapOf(_, _)
MapOf(map, entries) ==
    IF entries = <<>> THEN map
    ELSE MapOf(MapSet(map, Head(entries).key, Head(entries).value), Tail(entries))

\* As uniqueQuotes, without the Map: every entry of the pool is a candidate.
uniqueQuotesKeepAll(pool) == pool

\* Array.from(new Map(allQuotes.map(q => [q.quote, q])).values())
uniqueQuotes(pool) ==
    LET map == MapOf(<<>>, [i \in 1..Len(pool) |->
                              [key |-> pool[i].quote, value |-> pool[i]]])
    IN  [i \in 1..Len(map) |-> map[i].value]

\* As similarEnough, with the threshold test written > instead of >=.
similarEnoughStrict(quoteText, quoteToVerify) ==
    LET quoteWords == SetOf(split(quoteText))
        verifyWords == SetOf(split(quoteToVerify))
        intersection == {x \in quoteWords : x \in verifyWords}
        union == quoteWords \cup verifyWords
    IN  /\ 2 * Cardinality(intersection) > Cardinality(union)
        /\ Cardinality(quoteWords) > 2
        /\ Cardinality(verifyWords) > 2

\* intersection.size / union.size >= 0.5 && quoteWords.size > 2 && verifyWords.size > 2
\* (the quotient of two small integers is compared exactly: 2 * i >= u).
similarEnough(quoteText, quoteToVerify) ==
    LET quoteWords == SetOf(split(quoteText))
        verifyWords == SetOf(split(quoteToVerify))
        intersection == {x \in quoteWords : x \in verifyWords}
        union == quoteWords \cup verifyWords
    IN  /\ 2 * Cardinality(intersection) >= Cardinality(union)
        /\ Cardinality(quoteWords) > 2
        /\ Cardinality(verifyWords) > 2

\* As matchTypeOf, with the containment test placed before the equality test.
matchTypeOfPartialFirst(quoteText, quoteToVerify) ==
    IF includes(quoteText, quoteToVerify) \/ includes(quoteToVerify, quoteText)
    THEN "partial"
    ELSE IF quoteText = quoteToVerify THEN "exact"
         ELSE IF similarEnough(quoteText, quoteToVerify) THEN "similar" ELSE "none"

\* As matchTypeOf, testing containment of the query in the candidate only.
matchTypeOfOneWay(quoteText, quoteToVerify) ==
    IF quoteText = quoteToVerify THEN "exact"
    ELSE IF includes(quoteText, quoteToVerify)
         THEN "partial"
         ELSE IF similarEnough(quoteText, quoteToVerify) THEN "similar" ELSE "none"

\* The if / else if / else of the loop body: the match type pushed for one
\* candidate, or "none" when nothing is pushed.
matchTypeOf(quoteText, quoteToVerify) ==
    IF quoteText = quoteToVerify THEN "exact"
    ELSE IF includes(quoteText, quoteToVerify) \/ includes(quoteToVerify, quoteText)
         THEN "partial"
         ELSE IF similarEnough(quoteText, quoteToVerify) THEN "similar" ELSE "none"

\* for (const quote of uniqueQuotes) { ... matches.push({...quote, matchType}) }
RECURSIVE matchLoop(_, _, _)
matchLoop(found, candidates, quoteToVerify) ==
    IF candidates = <<>> THEN found
    ELSE LET quote == Head(candidates)
             quoteText == trim(toLowerCase(quote.quote.val))
             matchType == matchTypeOf(quoteText, quoteToVerify)
         IN  matchLoop(IF matchType = "none" THEN found
                       ELSE Append(found, [quote |-> quote.quote, anime |-> quote.anime,
                                           character |-> quote.character,
                                           matchType |-> matchType]),
                       Tail(candidates), quoteToVerify)

\* quote.quote.toLowerCase() on a candidate without a quote property:
\* TypeError, nothing in the step catches it.
verifyThrows(pool) ==
    \E i \in 1..Len(pool) : pool[i].quote.type # "string"

filterType(found, type) ==
    LET RECURSIVE keep(_)
        keep(s) == IF s = <<>> THEN <<>>
                   ELSE IF Head(s).matchType = type THEN <<Head(s)>> \o keep(Tail(s))
                        ELSE keep(Tail(s))
    IN  keep(found)

\* As slice, keeping the last n entries (slice(-n)) instead of the first n.
sliceLast(seq, n) == SubSeq(seq, IF Len(seq) < n THEN 1 ELSE Len(seq) - n + 1, Len(seq))

slice(seq, n) == SubSeq(seq, 1, IF Len(seq) < n THEN Len(seq) ELSE n)

\* As notFoundConfidence, with the two arms of the conditional exchanged.
notFoundConfidenceSwapped(poolLength) == IF poolLength > 0 THEN "medium" ELSE "high"

\* inputData.allQuotes.length > 0 ? 'high' : 'medium'
notFoundConfidence(poolLength) == IF poolLength > 0 THEN "high" ELSE "medium"

\* As decide, with the partial branch tested before the exact branch.
decidePartialFirst(exactCount, partialCount, matchCount, poolLength) ==
    IF partialCount > 0
    THEN [verified |-> TRUE, confidence |-> "medium",
          message |-> "Quote likely verified. Found " \o ToString(partialCount)
                      \o " partial match(es) - the quote may have slight variations."]
    ELSE IF exactCount > 0
    THEN [verified |-> TRUE, confidence |-> "high",
          message |-> "Quote verified! Found " \o ToString(exactCount)
                      \o " exact match(es)."]
    ELSE IF matchCount > 0
    THEN [verified |-> TRUE, confidence |-> "low",
          message |-> "Found " \o ToString(matchCount)
                      \o " similar quote(s), but not an exact match."]
    ELSE [verified |-> FALSE, confidence |-> notFoundConfidence(poolLength),
          message |-> "Quote not found in the database. The quote may not exist, or the character/anime name might be slightly different."]

\* "Determine verification result": the if / else if chain over the counts.
decide(exactCount, partialCount, matchCount, poolLength) ==
    IF exactCount > 0
    THEN [verified |-> TRUE, confidence |-> "high",
          message |-> "Quote verified! Found " \o ToString(exactCount)
                      \o " exact match(es)."]
    ELSE IF partialCount > 0
    THEN [verified |-> TRUE, confidence |-> "medium",
          message |-> "Quote likely verified. Found " \o ToString(partialCount)
                      \o " partial match(es) - the quote may have slight variations."]
    ELSE IF matchCount > 0
    THEN [verified |-> TRUE, confidence |-> "low",
          message |-> "Found " \o ToString(matchCount)
                      \o " similar quote(s), but not an exact match."]
    ELSE [verified |-> FALSE, confidence |-> notFoundConfidence(poolLength),
          message |-> "Quote not found in the database. The quote may not exist, or the character/anime name might be slightly different."]

\* The object verify-quote returns (without the fields copied from the input).
composeVerdict(found, poolLength) ==
    LET exactMatches == filterType(found, "exact")
        partialMatches == filterType(found, "partial")
        decided == decide(Len(exactMatches), Len(partialMatches), Len(found), poolLength)
    IN  [verified |-> decided.verified, confidence |-> decided.confidence,
         matches |-> slice(found, MatchLimit), message |-> decided.message]

VerifyQuote ==
    /\ pc = "verify-quote"
    /\ IF verifyThrows(uniqueQuotes(allQuotes))
       THEN /\ pc' = "failed"
            /\ failedStep' = "verify-quote"
            /\ UNCHANGED <<matches, verdict>>
       ELSE LET found == matchLoop(<<>>, uniqueQuotes(allQuotes),
                                   trim(toLowerCase(inputData.quote)))
            IN  /\ matches' = found
                /\ verdict' = composeVerdict(found, Len(allQuotes))
                /\ pc' = "generate-verification-report"
                /\ UNCHANGED failedStep
    /\ UNCHANGED <<inputData, upstream, apiFormat, characterQuotes, animeQuotes, allQuotes, requests,
                   report>>
    /\ UNCHANGED <<toolVars, routeVars, a2aVars>>

-----------------------------------------------------------------------------
(* Step 4: generate-verification-report *)

\* mastra.getAgent('animeAgent') and agent.generate(prompt), which the step
\* does not guard: "missing" and "throws" end the step with an exception.
AgentOutcomes == { "missing", "throws", "ok" }

GenerateVerificationReport ==
    /\ pc = "generate-verification-report"
    /\ \E agent \in AgentOutcomes :
         IF agent = "ok"
         THEN /\ report' = "response.text"
              /\ pc' = "done"
              /\ UNCHANGED failedStep
         ELSE /\ pc' = "failed"
              /\ failedStep' = "generate-verification-report"
              /\ UNCHANGED report
    /\ UNCHANGED <<inputData, upstream, apiFormat, characterQuotes, animeQuotes, allQuotes, matches,
                   verdict, requests>>
    /\ UNCHANGED <<toolVars, routeVars, a2aVars>>

-----------------------------------------------------------------------------
(* animeQuoteVerificationWorkflow: the four steps in sequence *)

Next ==
    \/ SearchQuotes
    \/ CollectQuotes
    \/ VerifyQuote
    \/ GenerateVerificationReport

Spec == Init /\ [][Next]_vars

-----------------------------------------------------------------------------
(* The quote tools: inputs and response parsing *)

\* The longest response drawn for a tool call.
MaxToolItems == 6

\* quotes.slice(0, 10)
ToolMatchLimit == 10

Tools == { "verifyAnimeQuoteTool", "getQuotesByAnimeTool", "getQuotesByCharacterTool" }

\* What the upstream holds for the names a tool is called with; one item of
\* each dimension carries an empty name.
ToolDataset ==
    [character |->
       { UpstreamItem(<<"a", " ", "b", " ", "c">>, "Death Note", "Light"),
         UpstreamItem(<<"a", " ", "b">>, "", "Light") },
     anime |->
       { UpstreamItem(<<"A", " ", "B", " ", "C", " ", "D">>, "Death Note", "L"),
         UpstreamItem(<<"c", " ", "b">>, "Death Note", "") }]

ToolItemLists(items) == UNION { [1..n -> items] : n \in 0..MaxToolItems }

\* The optional quote of verifyAnimeQuoteTool's context.
ToolQuoteInputs ==
    { UNDEFINED, Str(<<>>), Str(<<"A", " ", "b", " ">>), Str(<<"x">>) }

\* The context a tool is called with: every field of verifyAnimeQuoteTool is
\* optional, the lookup tools require the name they search by.
Contexts(t) ==
    CASE t = "verifyAnimeQuoteTool" ->
           [quote : ToolQuoteInputs,
            character : NameInputs("Light"),
            anime : NameInputs("Death Note")]
      [] t = "getQuotesByAnimeTool" ->
           { [quote |-> UNDEFINED, character |-> UNDEFINED, anime |-> Str("Death Note")] }
      [] t = "getQuotesByCharacterTool" ->
           { [quote |-> UNDEFINED, character |-> Str("Light"), anime |-> UNDEFINED] }

\* a || b on names, and on texts
OrName(a, b) == IF Truthy(a) THEN a ELSE b

OrText(a, b) == IF TruthyText(a) THEN a ELSE b

\* v?.name and v?.altName
nameOf(v) == IF v.type = "object" THEN v.name ELSE UNDEFINED

altNameOf(v) == IF v.type = "object" THEN v.altName ELSE UNDEFINED

\* apiResponse && typeof apiResponse === 'object' && 'status' in apiResponse
\*   && apiResponse.status && apiResponse.data
\* (getQuotesByCharacterTool tests only apiResponse.status && apiResponse.data,
\* which agrees on every body but null, where reading status throws.)
hasWrapperShape(apiResponse) ==
    /\ apiResponse.type = "object"
    /\ Truthy(apiResponse.status)
    /\ (apiResponse.data.type = "array" \/ Truthy(apiResponse.data))

\* The wrapper branch of parseApiResponse, per item.
wrapperRecord(item) ==
    [quote |-> item.content,
     anime |-> OrName(OrName(nameOf(item.anime), altNameOf(item.anime)), Str("Unknown")),
     character |-> OrName(nameOf(item.character), Str("Unknown"))]

\* The wrapper branch of the lookup tools, per item: item.character.name has
\* no fallback.
wrapperRecordOfLookupTool(item) ==
    [quote |-> item.content,
     anime |-> OrName(OrName(item.anime.name, item.anime.altName), Str("Unknown")),
     character |-> item.character.name]

\* The bare-array branch, per item (the same in the three tools).
arrayRecord(quote) ==
    [quote |-> OrText(quote.quote, quote.content),
     anime |-> IF quote.anime.type = "string" THEN quote.anime
               ELSE OrName(nameOf(quote.anime), Str("Unknown")),
     character |-> IF quote.character.type = "string" THEN quote.character
                   ELSE OrName(nameOf(quote.character), Str("Unknown"))]

Parsed(records) == [threw |-> FALSE, cause |-> "", quotes |-> records]

Thrown(cause) == [threw |-> TRUE, cause |-> cause, quotes |-> <<>>]

\* parseApiResponse of verifyAnimeQuoteTool: a body in neither shape parses
\* to [].  A truthy data that is not an array has no map: TypeError.
parseApiResponse(apiResponse) ==
    IF hasWrapperShape(apiResponse)
    THEN IF apiResponse.data.type = "array"
         THEN Parsed([i \in 1..Len(apiResponse.data.elems) |->
                        wrapperRecord(apiResponse.data.elems[i])])
         ELSE Thrown("apiResponse.data.map is not a function")
    ELSE IF apiResponse.type = "array"
         THEN Parsed([i \in 1..Len(apiResponse.elems) |-> arrayRecord(apiResponse.elems[i])])
         ELSE Parsed(<<>>)

\* The shape detection of getQuotesByAnimeTool (guarded) and of
\* getQuotesByCharacterTool (not guarded against null): a body in neither
\* shape throws 'Unexpected API response format'.
parseOrThrow(guarded, apiResponse) ==
    IF ~guarded /\ apiResponse.type = "null"
    THEN Thrown("Cannot read properties of null (reading 'status')")
    ELSE IF hasWrapperShape(apiResponse)
    THEN IF apiResponse.data.type = "array"
         THEN Parsed([i \in 1..Len(apiResponse.data.elems) |->
                        wrapperRecordOfLookupTool(apiResponse.data.elems[i])])
         ELSE Thrown("apiResponse.data.map is not a function")
    ELSE IF apiResponse.type = "array"
         THEN Parsed([i \in 1..Len(apiResponse.elems) |-> arrayRecord(apiResponse.elems[i])])
         ELSE Thrown("Unexpected API response format")

-----------------------------------------------------------------------------
(* verifyAnimeQuoteTool.execute *)

\* As noInput, testing only that the three fields are absent.
noInputAbsentOnly(ctx) ==
    ctx.quote = UNDEFINED /\ ctx.character = UNDEFINED /\ ctx.anime = UNDEFINED

\* !context.quote && !context.character && !context.anime
noInput(ctx) == ~TruthyText(ctx.quote) /\ ~Truthy(ctx.character) /\ ~Truthy(ctx.anime)

cannotVerify ==
    [verified |-> FALSE, confidence |-> "low", matches |-> <<>>,
     message |-> <<"Cannot verify: Please provide at least a quote, character, or anime name.">>]

\* The verdict of the catch block around the lookups and the matching.
errorVerdict(cause) ==
    [verified |-> FALSE, confidence |-> "low", matches |-> <<>>,
     message |-> <<"Error during verification: ", cause>>]

notFoundVerdict(ctx) ==
    [verified |-> FALSE,
     confidence |-> IF TruthyText(ctx.quote) THEN "high" ELSE "medium",
     matches |-> <<>>,
     message |-> <<"Quote not found in the database. It may not exist, or the character/anime name might be slightly different.">>]

\* As lookup, with a body that is not JSON read as no quotes.
lookupIgnoringBadJson(outcome, body) ==
    CASE outcome = "network-error" -> [ok |-> FALSE, parsed |-> Thrown("fetch failed")]
      [] outcome = "non-2xx" -> [ok |-> FALSE, parsed |-> Parsed(<<>>)]
      [] outcome = "malformed-json" -> [ok |-> FALSE, parsed |-> Parsed(<<>>)]
      [] outcome = "ok" -> [ok |-> TRUE, parsed |-> parseApiResponse(body)]

\* response = await fetch(...); if (response.ok) quotes = parseApiResponse(await response.json())
\* fetch rejects on a network error and response.json() on a body that is
\* not JSON; ok says the assignment to quotes was reached.
lookup(outcome, body) ==
    CASE outcome = "network-error" -> [ok |-> FALSE, parsed |-> Thrown("fetch failed")]
      [] outcome = "non-2xx" -> [ok |-> FALSE, parsed |-> Parsed(<<>>)]
      [] outcome = "malformed-json" ->
           [ok |-> FALSE, parsed |-> Thrown("Unexpected token < in JSON at position 0")]
      [] outcome = "ok" -> [ok |-> TRUE, parsed |-> parseApiResponse(body)]

\* q.quote.toLowerCase().includes(quoteText) || quoteText.includes(q.quote.toLowerCase())
matchesQuote(q, quoteText) ==
    \/ includes(toLowerCase(q.quote.val), quoteText)
    \/ includes(quoteText, toLowerCase(q.quote.val))

\* The part of execute after the lookups.
matchVerdict(ctx, pool) ==
    IF TruthyText(ctx.quote)
    THEN IF \E i \in 1..Len(pool) : pool[i].quote.type # "string"
         THEN errorVerdict("Cannot read properties of undefined (reading 'toLowerCase')")
         ELSE LET quoteText == trim(toLowerCase(ctx.quote.val))
                  matchingQuotes == SelectSeq(pool, LAMBDA q : matchesQuote(q, quoteText))
              IN  IF Len(matchingQuotes) > 0
                  THEN [verified |-> TRUE, confidence |-> "high",
                        matches |-> matchingQuotes,
                        message |-> <<"Quote verified! Found ",
                                      ToString(Len(matchingQuotes)),
                                      " matching quote(s).">>]
                  ELSE notFoundVerdict(ctx)
    ELSE IF Len(pool) > 0
         THEN [verified |-> TRUE, confidence |-> "medium",
               matches |-> slice(pool, ToolMatchLimit),
               message |-> <<"Found ", ToString(Len(pool)),
                             " quote(s) for the specified criteria.">>]
         ELSE notFoundVerdict(ctx)

InitTool ==
    /\ tool \in Tools
    /\ context \in Contexts(tool)
    /\ toolPc = "execute"
    /\ quotes = <<>>
    /\ toolResult = NoResult
    /\ RouteIdle
    /\ A2AIdle
    /\ upstream = ToolDataset
    /\ apiFormat \in ApiFormats \cup UnexpectedFormats
    /\ requests = <<>>
    /\ pc = "idle"
    /\ inputData = [quote |-> <<>>, character |-> UNDEFINED, anime |-> UNDEFINED]
    /\ characterQuotes = <<>>
    /\ animeQuotes = <<>>
    /\ allQuotes = <<>>
    /\ matches = <<>>
    /\ verdict = NoVerdict
    /\ failedStep = "none"
    /\ report = ""

\* The check of the input, before any request.
VerifyValidate ==
    /\ tool = "verifyAnimeQuoteTool"
    /\ toolPc = "execute"
    /\ IF noInput(context)
       THEN toolPc' = "returned" /\ toolResult' = cannotVerify
       ELSE toolPc' = "character-lookup" /\ toolResult' = toolResult
    /\ UNCHANGED <<tool, context, quotes, upstream, apiFormat, requests>>
    /\ UNCHANGED <<workflowVars, routeVars, a2aVars>>

\* if (context.character) { ... }
VerifyCharacterLookup ==
    /\ tool = "verifyAnimeQuoteTool"
    /\ toolPc = "character-lookup"
    /\ IF Truthy(context.character)
       THEN \E outcome \in FetchOutcomes, items \in ToolItemLists(upstream.character) :
              LET r == lookup(outcome, Body(apiFormat, items))
              IN  /\ requests' = Append(requests,
                                        [dimension |-> "character", outcome |-> outcome,
                                         items |-> ItemCount(outcome, items)])
                  /\ IF r.parsed.threw
                     THEN /\ toolPc' = "returned"
                          /\ toolResult' = errorVerdict(r.parsed.cause)
                          /\ quotes' = quotes
                     ELSE /\ toolPc' = "anime-lookup"
                          /\ toolResult' = toolResult
                          /\ quotes' = IF r.ok THEN r.parsed.quotes ELSE quotes
       ELSE /\ toolPc' = "anime-lookup"
            /\ UNCHANGED <<requests, toolResult, quotes>>
    /\ UNCHANGED <<tool, context, upstream, apiFormat>>
    /\ UNCHANGED <<workflowVars, routeVars, a2aVars>>

\* As needsAnimeLookup, without the test of the quotes found so far.
needsAnimeLookupAlways(found, ctx) == Truthy(ctx.anime)

\* quotes.length === 0 && context.anime
needsAnimeLookup(found, ctx) == Len(found) = 0 /\ Truthy(ctx.anime)

\* if (quotes.length === 0 && context.anime) { ... }
VerifyAnimeLookup ==
    /\ tool = "verifyAnimeQuoteTool"
    /\ toolPc = "anime-lookup"
    /\ IF needsAnimeLookup(quotes, context)
       THEN \E outcome \in FetchOutcomes, items \in ToolItemLists(upstream.anime) :
              LET r == lookup(outcome, Body(apiFormat, items))
              IN  /\ requests' = Append(requests,
                                        [dimension |-> "anime", outcome |-> outcome,
                                         items |-> ItemCount(outcome, items)])
                  /\ IF r.parsed.threw
                     THEN /\ toolPc' = "returned"
                          /\ toolResult' = errorVerdict(r.parsed.cause)
                          /\ quotes' = quotes
                     ELSE /\ toolPc' = "match"
                          /\ toolResult' = toolResult
                          /\ quotes' = IF r.ok THEN r.parsed.quotes ELSE quotes
       ELSE /\ toolPc' = "match"
            /\ UNCHANGED <<requests, toolResult, quotes>>
    /\ UNCHANGED <<tool, context, upstream, apiFormat>>
    /\ UNCHANGED <<workflowVars, routeVars, a2aVars>>

\* if (context.quote) { ... } else { ... }  and the final return
VerifyMatch ==
    /\ tool = "verifyAnimeQuoteTool"
    /\ toolPc = "match"
    /\ toolResult' = matchVerdict(context, quotes)
    /\ toolPc' = "returned"
    /\ UNCHANGED <<tool, context, quotes, upstream, apiFormat, requests>>
    /\ UNCHANGED <<workflowVars, routeVars, a2aVars>>

-----------------------------------------------------------------------------
(* getQuotesByAnimeTool.execute and getQuotesByCharacterTool.execute *)

\* The try block of a lookup tool: a non-2xx answer throws the error the body
\* names or 'API request failed with status ...'.
fetchQuotes(guarded, outcome, body) ==
    CASE outcome = "network-error" -> Thrown("fetch failed")
      [] outcome = "non-2xx" -> Thrown("API request failed with status")
      [] outcome = "malformed-json" -> Thrown("Unexpected token < in JSON at position 0")
      [] outcome = "ok" -> parseOrThrow(guarded, body)

\* return { quotes: quotesArray, page: context.page || 1 }, or the error the
\* catch block throws in place of the one caught.
lookupToolResult(what, name, r) ==
    IF r.threw
    THEN [name |-> "Error",
          message |-> <<"Failed to fetch quotes for ", what, " \"", name, "\": ", r.cause>>]
    ELSE [quotes |-> r.quotes, page |-> 1]

GetQuotesByAnime ==
    /\ tool = "getQuotesByAnimeTool"
    /\ toolPc = "execute"
    /\ \E outcome \in FetchOutcomes, items \in ToolItemLists(upstream.anime) :
         LET r == fetchQuotes(TRUE, outcome, Body(apiFormat, items))
         IN  /\ requests' = Append(requests,
                                   [dimension |-> "anime", outcome |-> outcome,
                                    items |-> ItemCount(outcome, items)])
             /\ toolResult' = lookupToolResult("anime", context.anime.val, r)
             /\ toolPc' = IF r.threw THEN "thrown" ELSE "returned"
    /\ UNCHANGED <<tool, context, quotes, upstream, apiFormat>>
    /\ UNCHANGED <<workflowVars, routeVars, a2aVars>>

GetQuotesByCharacter ==
    /\ tool = "getQuotesByCharacterTool"
    /\ toolPc = "execute"
    /\ \E outcome \in FetchOutcomes, items \in ToolItemLists(upstream.character) :
         LET r == fetchQuotes(FALSE, outcome, Body(apiFormat, items))
         IN  /\ requests' = Append(requests,
                                   [dimension |-> "character", outcome |-> outcome,
                                    items |-> ItemCount(outcome, items)])
             /\ toolResult' = lookupToolResult("character", context.character.val, r)
             /\ toolPc' = IF r.threw THEN "thrown" ELSE "returned"
    /\ UNCHANGED <<tool, context, quotes, upstream, apiFormat>>
    /\ UNCHANGED <<workflowVars, routeVars, a2aVars>>

-----------------------------------------------------------------------------
(* One call of one tool *)

NextTool ==
    \/ VerifyValidate
    \/ VerifyCharacterLookup
    \/ VerifyAnimeLookup
    \/ VerifyMatch
    \/ GetQuotesByAnime
    \/ GetQuotesByCharacter

SpecTool == InitTool /\ [][NextTool]_vars

-----------------------------------------------------------------------------
(* Properties of the verification pipeline *)

\* verify-quote has just returned its verdict to the workflow.
afterVerify == pc = "generate-verification-report"

\* The lower-cased, trimmed form of a text.
Norm(s) == trim(toLowerCase(s))

MatchIndexes == 1..Len(matches)

PoolIndexes == 1..Len(allQuotes)

HasMatchOfType(type) == \E j \in MatchIndexes : matches[j].matchType = type

\* The match types recorded for a quote text.
MatchTypesFor(quote) ==
    {matches[j].matchType : j \in {k \in MatchIndexes : matches[k].quote = quote}}

\* sub occurs in s as a contiguous run of characters.
Contains(s, sub) ==
    \E i \in 1..(Len(s) + 1) : \E j \in (i - 1)..Len(s) : SubSeq(s, i, j) = sub

\* The distinct whitespace-separated words of s.
Words(s) ==
    {SubSeq(s, i, j) : <<i, j>> \in
       {<<i, j>> \in (1..Len(s)) \X (1..Len(s)) :
          /\ i <= j
          /\ \A k \in i..j : s[k] \notin WhiteSpace
          /\ i = 1 \/ s[i - 1] \in WhiteSpace
          /\ j = Len(s) \/ s[j + 1] \in WhiteSpace}}

\* C1: when verify-quote returns, an exact match in the full match list gives
\* verified with confidence high; otherwise a partial match gives verified
\* with confidence medium; otherwise a non-empty list (similar matches only)
\* gives verified with confidence low.
C1_ConfidenceOrdering ==
    afterVerify =>
      /\ HasMatchOfType("exact") =>
           verdict.verified /\ verdict.confidence = "high"
      /\ ~HasMatchOfType("exact") /\ HasMatchOfType("partial") =>
           verdict.verified /\ verdict.confidence = "medium"
      /\ (matches # <<>> /\ \A j \in MatchIndexes : matches[j].matchType = "similar") =>
           verdict.verified /\ verdict.confidence = "low"

\* A partial and a similar match without an exact one: confidence medium.
C1_Witness ==
    /\ afterVerify
    /\ ~HasMatchOfType("exact")
    /\ HasMatchOfType("partial")
    /\ HasMatchOfType("similar")
    /\ verdict.verified
    /\ verdict.confidence = "medium"

\* C2: when verify-quote returns and no candidate matched, the verdict is not
\* verified, with confidence high for a non-empty incoming pool and medium
\* for an empty one.
C2_NotFound ==
    (afterVerify /\ matches = <<>>) =>
      /\ ~verdict.verified
      /\ Len(allQuotes) > 0 => verdict.confidence = "high"
      /\ Len(allQuotes) = 0 => verdict.confidence = "medium"

\* A non-empty pool none of whose candidates matches the quote.
C2_Witness ==
    /\ afterVerify
    /\ matches = <<>>
    /\ Len(allQuotes) > 0
    /\ ~verdict.verified
    /\ verdict.confidence = "high"

\* C3: after collect-quotes no two entries of allQuotes have the same quote
\* text, whatever lists the upstream returned (stated for responses that
\* carry the text under quote, so that every entry has a text).
C3_PoolTextsDistinct ==
    (pc = "verify-quote" /\ apiFormat = "arrayQuote") =>
      \A i, j \in PoolIndexes : i # j => allQuotes[i].quote # allQuotes[j].quote

\* C4: the matches verify-quote returns are at most 5 and are the first
\* min(5, n) entries of the full match list, in the same order.
C4_MatchesArePrefix ==
    afterVerify =>
      /\ Len(verdict.matches) <= 5
      /\ Len(verdict.matches) = IF Len(matches) < 5 THEN Len(matches) ELSE 5
      /\ \A k \in 1..Len(verdict.matches) : verdict.matches[k] = matches[k]

\* More than 5 candidates matched and the verdict carries the first 5.
C4_Witness ==
    /\ afterVerify
    /\ Len(matches) > 5
    /\ Len(verdict.matches) = 5

\* C5: every candidate whose normalized text equals the normalized quote is
\* classified exact and nothing else, wherever it stands in the pool.
C5_ExactWins ==
    afterVerify =>
      \A i \in PoolIndexes :
        Norm(allQuotes[i].quote.val) = Norm(inputData.quote) =>
          MatchTypesFor(allQuotes[i].quote) = {"exact"}

\* An exact match that follows a partial or similar match in the list.
C5_Witness ==
    /\ afterVerify
    /\ \E j \in MatchIndexes :
         /\ j > 1
         /\ matches[j].matchType = "exact"
         /\ matches[j - 1].matchType # "exact"

\* C6: a candidate is classified partial exactly when its normalized text
\* differs from the normalized quote and one of the two contains the other.
C6_PartialIff ==
    afterVerify =>
      \A i \in PoolIndexes :
        LET c == Norm(allQuotes[i].quote.val)
            q == Norm(inputData.quote)
        IN  ("partial" \in MatchTypesFor(allQuotes[i].quote))
              <=> (c # q /\ (Contains(c, q) \/ Contains(q, c)))

\* One partial match whose text contains the quote and one whose text the
\* quote contains.
C6_Witness ==
    /\ afterVerify
    /\ \E j, k \in MatchIndexes :
         /\ matches[j].matchType = "partial"
         /\ matches[k].matchType = "partial"
         /\ Len(Norm(matches[j].quote.val)) > Len(Norm(inputData.quote))
         /\ Len(Norm(matches[k].quote.val)) < Len(Norm(inputData.quote))

\* The word overlap of candidate c and quote q reaches one half, both with
\* more than two distinct words.
OverlapAtLeastHalf(c, q) ==
    /\ 2 * Cardinality(Words(c) \cap Words(q)) >= Cardinality(Words(c) \cup Words(q))
    /\ Cardinality(Words(c)) > 2
    /\ Cardinality(Words(q)) > 2

\* C7: a candidate that is neither exact nor partial is classified similar
\* exactly when the overlap of the word sets is at least 1/2 and both sets
\* have more than 2 words; otherwise it is left out of the match list.
C7_SimilarIff ==
    afterVerify =>
      \A i \in PoolIndexes :
        LET c == Norm(allQuotes[i].quote.val)
            q == Norm(inputData.quote)
        IN  (c # q /\ ~Contains(c, q) /\ ~Contains(q, c)) =>
              /\ OverlapAtLeastHalf(c, q) => MatchTypesFor(allQuotes[i].quote) = {"similar"}
              /\ ~OverlapAtLeastHalf(c, q) => MatchTypesFor(allQuotes[i].quote) = {}

\* A similar match whose overlap is exactly 1/2.
C7_Witness ==
    /\ afterVerify
    /\ \E j \in MatchIndexes :
         LET c == Norm(matches[j].quote.val)
             q == Norm(inputData.quote)
         IN  /\ matches[j].matchType = "similar"
             /\ 2 * Cardinality(Words(c) \cap Words(q)) = Cardinality(Words(c) \cup Words(q))

\* The candidate a match was made from.
CandidateOf(match) ==
    [quote |-> match.quote, anime |-> match.anime, character |-> match.character]

\* Every element of sub is found in seq, in the same order, each element of
\* seq used at most once.
RECURSIVE IsSubsequence(_, _)
IsSubsequence(sub, seq) ==
    IF sub = <<>> THEN TRUE
    ELSE IF seq = <<>> THEN FALSE
    ELSE IF CandidateOf(Head(sub)) = Head(seq)
         THEN IsSubsequence(Tail(sub), Tail(seq))
         ELSE IsSubsequence(sub, Tail(seq))

\* C8: the full match list is a subsequence of the incoming pool in pool
\* order: each candidate gives at most one match and the matches keep the
\* relative order of their candidates.
C8_MatchesInPoolOrder ==
    afterVerify => IsSubsequence(matches, allQuotes)

FailureOutcomes == { "network-error", "non-2xx", "malformed-json" }

Requested(dimension) ==
    \E i \in 1..Len(requests) : requests[i].dimension = dimension

LookupFailed(dimension) ==
    \E i \in 1..Len(requests) :
      requests[i].dimension = dimension /\ requests[i].outcome \in FailureOutcomes

collected == pc \notin { "search-quotes", "collect-quotes" }

\* The failed lookup of a dimension leaves no record of that dimension, and
\* the lookup and the records of the other dimension are not affected.
FailedLookupSwallowed ==
    /\ (pc # "search-quotes" /\ LookupFailed("character")) => characterQuotes = <<>>
    /\ (collected /\ LookupFailed("character") /\ Truthy(inputData.anime)) =>
         Requested("anime") /\ allQuotes = animeQuotes
    /\ (collected /\ LookupFailed("anime")) =>
         animeQuotes = <<>> /\ allQuotes = characterQuotes

\* C9: when the lookup of one dimension throws, is answered non-2xx or has a
\* body that does not parse, that dimension gives no records, the other
\* lookup is still made and its records reach verify-quote, and the workflow
\* goes on to a verdict: no step up to verify-quote fails.
C9_PartialFailureTolerated ==
    /\ FailedLookupSwallowed
    /\ (LookupFailed("character") \/ LookupFailed("anime")) =>
         failedStep \notin { "search-quotes", "collect-quotes", "verify-quote" }

\* C10: for every input and every upstream behaviour the steps search-quotes,
\* collect-quotes and verify-quote complete without throwing, and the
\* verdict verify-quote returns carries a message.
C10_NoStepThrows ==
    /\ failedStep \notin { "search-quotes", "collect-quotes", "verify-quote" }
    /\ afterVerify => verdict.message # ""

\* A record whose text, anime and character are defined, non-empty strings.
WellFormedRecord(r) ==
    /\ r.quote.type = "string" /\ r.quote.val # <<>>
    /\ r.anime.type = "string" /\ r.anime.val # ""
    /\ r.character.type = "string" /\ r.character.val # ""

\* The records a step kept from the lookup of a dimension.
RecordsOf(dimension) == IF dimension = "character" THEN characterQuotes ELSE animeQuotes

\* C11: a 2xx response in a documented shape (wrapper object, bare array with
\* the text under quote or under content) yields one record per item of the
\* response, each with a defined non-empty text, anime and character.
C11_OneRecordPerItem ==
    \A i \in 1..Len(requests) :
      requests[i].outcome = "ok" =>
        /\ Len(RecordsOf(requests[i].dimension)) = requests[i].items
        /\ \A k \in 1..Len(RecordsOf(requests[i].dimension)) :
             WellFormedRecord(RecordsOf(requests[i].dimension)[k])

\* The pool that starts as pool and takes each record of rest, in order,
\* unless a record already in the pool has the same text.
RECURSIVE AppendUnlessPresent(_, _)
AppendUnlessPresent(pool, rest) ==
    IF rest = <<>> THEN pool
    ELSE IF \E i \in 1..Len(pool) : pool[i].quote = Head(rest).quote
         THEN AppendUnlessPresent(pool, Tail(rest))
         ELSE AppendUnlessPresent(Append(pool, Head(rest)), Tail(rest))

\* C12: the pool of collect-quotes is the character-sourced list, unchanged,
\* followed by the anime-sourced records in their order, each appended only
\* if no record already present has the same text (stated for responses that
\* carry the text under quote).
C12_PoolIsOrderedMerge ==
    (pc = "verify-quote" /\ apiFormat = "arrayQuote") =>
      allQuotes = AppendUnlessPresent(characterQuotes, animeQuotes)

\* C17: a failure of the report step (no anime agent, agent.generate throws)
\* is handled inside the step, so the workflow never fails there and ends
\* with the verdict of verify-quote.
C17_ReportFailureHandled ==
    /\ failedStep # "generate-verification-report"
    /\ pc = "done" => verdict # NoVerdict

RequestCount(dimension) ==
    Cardinality({i \in 1..Len(requests) : requests[i].dimension = dimension})

NonEmptyName(v) == v.type = "string" /\ v.val # ""

-----------------------------------------------------------------------------
(* Properties of the quote tools *)

\* verifyAnimeQuoteTool has returned its verdict.
verifyReturned == tool = "verifyAnimeQuoteTool" /\ toolPc = "returned"

\* C13: called with no quote, with a pool of N > 0 records retrieved,
\* verifyAnimeQuoteTool returns verified, confidence medium, the message that
\* N quotes were found for the criteria, and the first min(5, N) records of
\* the pool, in pool order, as matches.
C13_NoQuoteReturnsFirstFive ==
    (verifyReturned /\ ~TruthyText(context.quote) /\ Len(quotes) > 0) =>
      /\ toolResult.verified = TRUE
      /\ toolResult.confidence = "medium"
      /\ toolResult.message =
           <<"Found ", ToString(Len(quotes)), " quote(s) for the specified criteria.">>
      /\ toolResult.matches = SubSeq(quotes, 1, IF Len(quotes) < 5 THEN Len(quotes) ELSE 5)

\* Both lookups were answered 2xx in a known shape with no item.
BothLookupsEmpty ==
    /\ apiFormat \in ApiFormats
    /\ Len(requests) = 2
    /\ \A i \in 1..2 : requests[i].outcome = "ok" /\ requests[i].items = 0

\* C14: called with a quote, when the character lookup and the anime lookup
\* both return zero records, verifyAnimeQuoteTool returns verified = false
\* with confidence medium.
C14_EmptyPoolIsMedium ==
    (verifyReturned /\ TruthyText(context.quote) /\ BothLookupsEmpty) =>
      /\ toolResult.verified = FALSE
      /\ toolResult.confidence = "medium"

\* Each of quote, character and anime is absent or empty.
NoneSupplied ==
    /\ context.quote \in { UNDEFINED, Str(<<>>) }
    /\ context.character \in { UNDEFINED, Str("") }
    /\ context.anime \in { UNDEFINED, Str("") }

\* C15: called with none of quote, character and anime, verifyAnimeQuoteTool
\* issues no request and returns verified = false, confidence low, no
\* matches and the 'Cannot verify' message.
C15_NoInputCannotVerify ==
    (tool = "verifyAnimeQuoteTool" /\ NoneSupplied) =>
      /\ requests = <<>>
      /\ toolPc \in { "execute", "returned" }
      /\ toolPc = "returned" =>
           /\ toolResult.verified = FALSE
           /\ toolResult.confidence = "low"
           /\ toolResult.matches = <<>>
           /\ toolResult.message =
                <<"Cannot verify: Please provide at least a quote, character, or anime name.">>

\* The tool has returned on a call with an empty quote, an empty character
\* and no anime.
C15_Witness ==
    /\ verifyReturned
    /\ context.quote = Str(<<>>)
    /\ context.character = Str("")
    /\ context.anime = UNDEFINED

\* The i-th request, or the parsing of its response, threw: the fetch was
\* rejected, the body was not JSON, or data of the wrapper has no map.
LookupThrew(i) ==
    \/ requests[i].outcome \in { "network-error", "malformed-json" }
    \/ requests[i].outcome = "ok" /\ apiFormat = "wrapperBadData"

\* C16: verifyAnimeQuoteTool never ends by throwing; once a lookup request
\* or the parsing of its response has thrown, the tool has returned
\* verified = false, confidence low, no matches and a message that begins
\* 'Error during verification'.
C16_ErrorsBecomeVerdict ==
    tool = "verifyAnimeQuoteTool" =>
      /\ toolPc # "thrown"
      /\ (\E i \in 1..Len(requests) : LookupThrew(i)) =>
           /\ toolPc = "returned"
           /\ toolResult.verified = FALSE
           /\ toolResult.confidence = "low"
           /\ toolResult.matches = <<>>
           /\ Head(toolResult.message) = "Error during verification: "

\* The character lookup found nothing and the answer to the anime lookup was
\* not JSON.
C16_Witness ==
    /\ verifyReturned
    /\ Len(requests) = 2
    /\ requests[1].outcome = "ok"
    /\ requests[2].outcome = "malformed-json"

\* C18: once a lookup of any of the three tools has received a 2xx body in
\* neither known shape, the call has ended with an error whose message
\* contains 'Unexpected API response format' (thrown by the lookup tools).
C18_UnexpectedShapeRaises ==
    (tool \in Tools /\ apiFormat \in UnexpectedFormats
       /\ \E i \in 1..Len(requests) : requests[i].outcome = "ok") =>
      /\ toolPc \in { "returned", "thrown" }
      /\ tool # "verifyAnimeQuoteTool" => toolPc = "thrown"
      /\ \E k \in 1..Len(toolResult.message) :
           toolResult.message[k] = "Unexpected API response format"

-----------------------------------------------------------------------------
(* verify-quote on its own: the step applied to a pool given as its input *)

\* The longest pool handed to verify-quote.
MaxPool == 6

\* Records a pool is made of: one text under two attributions, the same words
\* in other letter case with white space around them, shorter and longer
\* texts, the words in another order, and two spaces between two words.
VerifyRecords ==
    << [quote |-> Str(<<"a", " ", "b">>), anime |-> Str("Death Note"),
        character |-> Str("Light")],
       [quote |-> Str(<<"a", " ", "b", " ", "c", " ", "d">>), anime |-> Str("Death Note"),
        character |-> Str("L")],
       [quote |-> Str(<<"c", " ", "b", " ", "a">>), anime |-> Str("Death Note"),
        character |-> Str("Misa")],
       [quote |-> Str(<<"a", " ", " ", "b", " ", "c">>), anime |-> Str("Death Note"),
        character |-> Str("Ryuk")],
       [quote |-> Str(<<"b", " ", "c">>), anime |-> Str("Death Note"),
        character |-> Str("Rem")],
       [quote |-> Str(<<"a", " ", "b", " ", "c">>), anime |-> Str("Death Note"),
        character |-> Str("Light")],
       [quote |-> Str(<<" ", "A", " ", "B", " ", "C", " ">>), anime |-> Str("Death Note"),
        character |-> Str("Near")],
       [quote |-> Str(<<"a", " ", "b", " ", "c">>), anime |-> Str("Death Note Relight"),
        character |-> Str("Kira")] >>

\* The records in the order above, and in the opposite order.
Reversed(seq) == [i \in 1..Len(seq) |-> seq[Len(seq) + 1 - i]]

Listings == { VerifyRecords, Reversed(VerifyRecords) }

\* The entries of listing whose index is in chosen, in the listing's order.
RECURSIVE Selection(_, _, _)
Selection(listing, chosen, i) ==
    IF i > Len(listing) THEN <<>>
    ELSE IF i \in chosen
         THEN <<listing[i]>> \o Selection(listing, chosen, i + 1)
         ELSE Selection(listing, chosen, i + 1)

Pools ==
    { Selection(listing, chosen, 1) :
        listing \in Listings,
        chosen \in { c \in SUBSET (1..Len(VerifyRecords)) : Cardinality(c) <= MaxPool } }

\* inputData.quote: z.string(), which admits the empty string and white space.
VerifyQueries ==
    { <<"a", " ", "b", " ", "c">>,
      <<" ", "A", " ", "b", " ", "C", " ">>,
      <<"x">>,
      <<>>,
      <<" ">> }

InitVerify ==
    /\ pc = "verify-quote"
    /\ inputData \in [quote : VerifyQueries,
                      character : { Str("Light") },
                      anime : { Str("Death Note") }]
    /\ allQuotes \in Pools
    /\ upstream = DistinctDataset
    /\ apiFormat = "arrayQuote"
    /\ characterQuotes = <<>>
    /\ animeQuotes = <<>>
    /\ matches = <<>>
    /\ verdict = NoVerdict
    /\ requests = <<>>
    /\ failedStep = "none"
    /\ report = ""
    /\ tool = "none"
    /\ context = NoContext
    /\ toolPc = "idle"
    /\ quotes = <<>>
    /\ toolResult = NoResult
    /\ RouteIdle
    /\ A2AIdle

NextVerify == VerifyQuote

SpecVerify == InitVerify /\ [][NextVerify]_vars

-----------------------------------------------------------------------------
(* Properties of verify-quote as a function of its input *)

\* The distinct texts of the pool, and the first and the last place of a text.
PoolTexts == {allQuotes[i].quote : i \in PoolIndexes}

FirstIndex(text) ==
    CHOOSE i \in PoolIndexes :
      allQuotes[i].quote = text /\ \A j \in 1..(i - 1) : allQuotes[j].quote # text

LastIndex(text) ==
    CHOOSE i \in PoolIndexes :
      allQuotes[i].quote = text /\ \A j \in (i + 1)..Len(allQuotes) : allQuotes[j].quote # text

\* The match type verify-quote gives a candidate text for a query.
Classify(text, query) == matchTypeOf(trim(toLowerCase(text)), trim(toLowerCase(query)))

\* C22: verify-quote evaluates exactly one candidate per distinct text of its
\* pool: the candidate carries the anime and character of the text's last
\* occurrence and stands at the place of its first occurrence, so the matches
\* are one per matching text, in the order of first occurrence, each with the
\* attribution of the last occurrence.
C22_OneCandidatePerText ==
    afterVerify =>
      LET candidates == uniqueQuotes(allQuotes)
      IN  /\ Len(candidates) = Cardinality(PoolTexts)
          /\ \A k \in 1..Len(candidates) :
               candidates[k] = allQuotes[LastIndex(candidates[k].quote)]
          /\ \A k, l \in 1..Len(candidates) :
               k < l => FirstIndex(candidates[k].quote) < FirstIndex(candidates[l].quote)
          /\ Len(matches) =
               Cardinality({t \in PoolTexts : Classify(t.val, inputData.quote) # "none"})
          /\ \A j \in MatchIndexes :
               CandidateOf(matches[j]) = allQuotes[LastIndex(matches[j].quote)]
          /\ \A j, k \in MatchIndexes :
               j < k => FirstIndex(matches[j].quote) < FirstIndex(matches[k].quote)

\* A text stands twice in the pool, first for Death Note and last for Death
\* Note Relight, with another record between, and was matched.
C22_Witness ==
    /\ afterVerify
    /\ Len(allQuotes) >= 3
    /\ allQuotes[1].quote = allQuotes[Len(allQuotes)].quote
    /\ allQuotes[1].anime = Str("Death Note")
    /\ allQuotes[Len(allQuotes)].anime = Str("Death Note Relight")
    /\ Len(matches) >= 2
    /\ matches[1].anime = Str("Death Note Relight")

\* The text in capital letters, and with white space put around it.
ToUpperChar(c) ==
    IF \E i \in 1..Len(LowerLetters) : LowerLetters[i] = c
    THEN UpperLetters[CHOOSE i \in 1..Len(LowerLetters) : LowerLetters[i] = c]
    ELSE c

ToUpper(s) == [i \in 1..Len(s) |-> ToUpperChar(s[i])]

Padded(s) == <<" ", "\t">> \o s \o <<" ", "\n">>

Variants(s) == { s, ToUpper(s), toLowerCase(s), Padded(s), Padded(ToUpper(s)) }

\* The text with every run of white space replaced by one space.
RECURSIVE Collapse(_)
Collapse(s) ==
    IF s = <<>> THEN <<>>
    ELSE IF Head(s) \in WhiteSpace
         THEN IF Tail(s) # <<>> /\ Head(Tail(s)) \in WhiteSpace
              THEN Collapse(Tail(s))
              ELSE <<" ">> \o Collapse(Tail(s))
         ELSE <<Head(s)>> \o Collapse(Tail(s))

\* C23: the classification of a candidate does not change when the letter
\* case of the query or of the candidate changes or white space is put
\* around either, and the match type recorded for a candidate is the one of
\* any such variant; texts that differ only in the white space between their
\* words are not an exact match.
C23_CaseAndPaddingInvariant ==
    afterVerify =>
      /\ \A i \in PoolIndexes :
           \A c \in Variants(allQuotes[i].quote.val), q \in Variants(inputData.quote) :
             Classify(c, q) = Classify(allQuotes[i].quote.val, inputData.quote)
      /\ \A j \in MatchIndexes :
           /\ matches[j].matchType =
                Classify(Padded(ToUpper(matches[j].quote.val)), Padded(ToUpper(inputData.quote)))
           /\ (/\ Norm(matches[j].quote.val) # Norm(inputData.quote)
               /\ Collapse(Norm(matches[j].quote.val)) = Collapse(Norm(inputData.quote)))
                => matches[j].matchType # "exact"

\* A query in mixed case with white space around it was matched exactly by
\* the candidate in capitals with white space around it, and not exactly by
\* the candidate with two spaces between its first words.
C23_Witness ==
    /\ afterVerify
    /\ inputData.quote = <<" ", "A", " ", "b", " ", "C", " ">>
    /\ \E j \in MatchIndexes :
         /\ matches[j].quote = Str(<<" ", "A", " ", "B", " ", "C", " ">>)
         /\ matches[j].matchType = "exact"
    /\ \E j \in MatchIndexes :
         /\ matches[j].quote = Str(<<"a", " ", " ", "b", " ", "c">>)
         /\ matches[j].matchType = "similar"

\* C25: when verify-quote returns verified with confidence high, the matches
\* it returns hold an exact match; when it returns verified with confidence
\* medium, they hold a partial match.
C25_ReturnedMatchesJustifyConfidence ==
    afterVerify =>
      /\ (verdict.verified /\ verdict.confidence = "high") =>
           \E j \in 1..Len(verdict.matches) : verdict.matches[j].matchType = "exact"
      /\ (verdict.verified /\ verdict.confidence = "medium") =>
           \E j \in 1..Len(verdict.matches) : verdict.matches[j].matchType = "partial"

\* C26: for the same non-empty quote and the same pool, verifyAnimeQuoteTool
\* and verify-quote return the same verified flag.
C26_ToolAgreesWithWorkflow ==
    (afterVerify /\ inputData.quote # <<>>) =>
      verdict.verified =
        matchVerdict([quote |-> Str(inputData.quote), character |-> inputData.character,
                      anime |-> inputData.anime], allQuotes).verified

\* C27: in a verdict of verify-quote, verified holds exactly when the
\* returned matches are not empty, and no two returned matches have the same
\* text.
C27_VerifiedIffMatches ==
    afterVerify =>
      /\ verdict.verified <=> verdict.matches # <<>>
      /\ \A j, k \in 1..Len(verdict.matches) :
           j # k => verdict.matches[j].quote # verdict.matches[k].quote

\* A pool that holds one text twice gave a verdict with several matches.
C27_Witness ==
    /\ afterVerify
    /\ Cardinality(PoolTexts) < Len(allQuotes)
    /\ verdict.verified
    /\ Len(verdict.matches) >= 2

\* C28: a quote that is empty after normalization is not reported verified
\* against a pool of non-empty candidates, and a candidate that is empty
\* after normalization is not a match of a non-empty quote, by verify-quote
\* and by the matching branch of verifyAnimeQuoteTool.
C28_EmptyTextNeverMatches ==
    afterVerify =>
      /\ (/\ Norm(inputData.quote) = <<>>
          /\ allQuotes # <<>>
          /\ \A i \in PoolIndexes : Norm(allQuotes[i].quote.val) # <<>>)
           => ~verdict.verified
      /\ Norm(inputData.quote) # <<>> =>
           \A j \in MatchIndexes : Norm(matches[j].quote.val) # <<>>
      /\ (/\ Norm(inputData.quote) = <<>>
          /\ inputData.quote # <<>>
          /\ allQuotes # <<>>)
           => ~matchVerdict([quote |-> Str(inputData.quote), character |-> inputData.character,
                             anime |-> inputData.anime], allQuotes).verified

-----------------------------------------------------------------------------
(* Order of the lookups of verifyAnimeQuoteTool *)

\* The places of the requests of a dimension in the log.
RequestsOf(dimension) == {i \in 1..Len(requests) : requests[i].dimension = dimension}

\* The number of records the character lookup left in quotes: the items of
\* a 2xx response in a known shape, none in every other case.
CharacterYield ==
    IF \E i \in RequestsOf("character") :
         requests[i].outcome = "ok" /\ apiFormat \in ApiFormats
    THEN requests[CHOOSE i \in RequestsOf("character") : TRUE].items
    ELSE 0

CharacterLookupThrew == \E i \in RequestsOf("character") : LookupThrew(i)

\* C24: verifyAnimeQuoteTool issues the character lookup first, and only if
\* a character is supplied; it issues the anime lookup only if an anime is
\* supplied and the character lookup left no record, and always then unless
\* the character lookup threw; a character lookup that yields a record
\* leaves its records as the quotes, the anime lookup not being issued.
C24_LookupOrder ==
    tool = "verifyAnimeQuoteTool" =>
      /\ Cardinality(RequestsOf("character")) <= 1
      /\ Cardinality(RequestsOf("anime")) <= 1
      /\ \A i \in RequestsOf("character"), j \in RequestsOf("anime") : i < j
      /\ RequestsOf("character") # {} => Truthy(context.character)
      /\ toolPc \in { "anime-lookup", "match" } =>
           (RequestsOf("character") # {} <=> Truthy(context.character))
      /\ RequestsOf("anime") # {} => (Truthy(context.anime) /\ CharacterYield = 0)
      /\ (toolPc \in { "match", "returned" } /\ ~noInput(context) /\ ~CharacterLookupThrew) =>
           (RequestsOf("anime") # {} <=> (Truthy(context.anime) /\ CharacterYield = 0))
      /\ (toolPc = "match" /\ CharacterYield > 0) =>
           (RequestsOf("anime") = {} /\ Len(quotes) = CharacterYield)

\* Both names were supplied, the character lookup was answered 2xx with no
\* item, and the anime lookup followed and brought records.
C24_Witness ==
    /\ tool = "verifyAnimeQuoteTool"
    /\ toolPc = "returned"
    /\ Len(requests) = 2
    /\ requests[1].dimension = "character"
    /\ requests[1].outcome = "ok"
    /\ requests[1].items = 0
    /\ requests[2].dimension = "anime"
    /\ Len(quotes) > 0

-----------------------------------------------------------------------------
(* a2aAgentRoute: POST /a2a/agent/:agentId *)

NULL == [type |-> "null"]

Num(n) == [type |-> "number", val |-> n]

\* !v is false: undefined, null, 0 and "" are falsy, every other value truthy.
JsTruthy(v) ==
    CASE v.type \in { "undefined", "null" } -> FALSE
      [] v.type = "number" -> v.val # 0
      [] v.type = "string" -> v.val # ""
      [] OTHER -> TRUE

\* The workflow is not running and no quote tool is called.
WorkflowIdle ==
    /\ pc = "idle"
    /\ inputData = [quote |-> <<>>, character |-> UNDEFINED, anime |-> UNDEFINED]
    /\ upstream = DistinctDataset
    /\ apiFormat = "arrayQuote"
    /\ characterQuotes = <<>>
    /\ animeQuotes = <<>>
    /\ allQuotes = <<>>
    /\ matches = <<>>
    /\ verdict = NoVerdict
    /\ failedStep = "none"
    /\ report = ""

ToolIdle ==
    /\ tool = "none"
    /\ context = NoContext
    /\ toolPc = "idle"
    /\ quotes = <<>>
    /\ toolResult = NoResult

\* The agents registered with mastra, and the ids a request may name.
RegisteredAgents == { "animeAgent" }

AgentIds == { "animeAgent", "ghostAgent" }

\* The members of a request body: jsonrpc, id and params.
Versions == { UNDEFINED, Str("1.0"), Str("2.0") }

RequestIds == { UNDEFINED, NULL, Num(0), Num(1), Str(""), Str("req-1") }

A2AMessage ==
    [type |-> "object", role |-> Str("user"),
     parts |-> Arr(<<[kind |-> "text", text |-> "is this quote real?"]>>)]

Params ==
    { UNDEFINED,
      [type |-> "object", message |-> UNDEFINED, messages |-> UNDEFINED, taskId |-> UNDEFINED],
      [type |-> "object", message |-> A2AMessage, messages |-> UNDEFINED, taskId |-> UNDEFINED],
      [type |-> "object", message |-> UNDEFINED, messages |-> Arr(<<A2AMessage, A2AMessage>>),
       taskId |-> Str("task-1")] }

\* What c.req.json() meets: a JSON object, the JSON value null, or a body
\* that is not JSON.
RequestBodies ==
    { [type |-> "object", jsonrpc |-> v, id |-> i, method |-> Str("message/send"),
       params |-> p] : v \in Versions, i \in RequestIds, p \in Params }
      \cup { NULL, [type |-> "malformed"] }

\* if (message) [message] else if (messages && Array.isArray(messages)) messages else []
messagesList(params) ==
    IF params.type # "object" THEN <<>>
    ELSE IF JsTruthy(params.message) THEN <<params.message>>
    ELSE IF params.messages.type = "array" THEN params.messages.elems
    ELSE <<>>

\* The catch block of the handler.
internalError(details) ==
    [status |-> 500, jsonrpc |-> "2.0", id |-> NULL,
     error |-> [code |-> -32603, message |-> "Internal error", details |-> details]]

invalidRequest(requestId) ==
    [status |-> 200, jsonrpc |-> "2.0",
     id |-> IF JsTruthy(requestId) THEN requestId ELSE NULL,
     error |-> [code |-> -32600,
                message |-> "Invalid Request: jsonrpc must be \"2.0\" and id is required"]]

agentNotFound(requestId, id) ==
    [status |-> 200, jsonrpc |-> "2.0", id |-> requestId,
     error |-> [code |-> -32602, message |-> <<"Agent '", id, "' not found">>]]

\* The task the handler answers with after agent.generate.
taskResponse(requestId, params, agentText) ==
    [status |-> 200, jsonrpc |-> "2.0", id |-> requestId,
     result |-> [kind |-> "task", state |-> "completed", text |-> agentText,
                 history |-> Len(messagesList(params)) + 1]]

\* jsonrpc !== '2.0' || !requestId
rejects(jsonrpc, requestId) == jsonrpc # Str("2.0") \/ ~JsTruthy(requestId)

InitRoute ==
    /\ routePc = "received"
    /\ agentId \in AgentIds
    /\ requestBody \in RequestBodies
    /\ response = NoResponse
    /\ generateCalls = 0
    /\ requests = <<>>
    /\ WorkflowIdle
    /\ ToolIdle
    /\ A2AIdle

\* From c.req.json() up to mastra.getAgent(agentId): destructuring a body
\* that is null, like a body that is not JSON, throws into the catch block.
RouteValidate ==
    /\ routePc = "received"
    /\ IF requestBody.type # "object"
       THEN /\ response' = internalError(requestBody.type)
            /\ routePc' = "responded"
       ELSE IF rejects(requestBody.jsonrpc, requestBody.id)
       THEN /\ response' = invalidRequest(requestBody.id)
            /\ routePc' = "responded"
       ELSE IF agentId \notin RegisteredAgents
       THEN /\ response' = agentNotFound(requestBody.id, agentId)
            /\ routePc' = "responded"
       ELSE /\ response' = response
            /\ routePc' = "generate"
    /\ UNCHANGED <<agentId, requestBody, generateCalls, requests>>
    /\ UNCHANGED <<workflowVars, upstream, apiFormat, toolVars, a2aVars>>

\* await agent.generate(mastraMessages) and the response built from it.
RouteGenerate ==
    /\ routePc = "generate"
    /\ generateCalls' = generateCalls + 1
    /\ \E outcome \in { "ok", "throws" }, agentText \in { "", "Yes, Light said that." } :
         response' = IF outcome = "throws"
                     THEN internalError("generate failed")
                     ELSE taskResponse(requestBody.id,
                                       IF requestBody.params.type = "object"
                                       THEN requestBody.params
                                       ELSE [type |-> "none"],
                                       agentText)
    /\ routePc' = "responded"
    /\ UNCHANGED <<agentId, requestBody, requests>>
    /\ UNCHANGED <<workflowVars, upstream, apiFormat, toolVars, a2aVars>>

NextRoute == RouteValidate \/ RouteGenerate

SpecRoute == InitRoute /\ [][NextRoute]_vars

\* The response is the JSON-RPC error Invalid Request.
IsInvalidRequest == "error" \in DOMAIN response /\ response.error.code = -32600

\* C21: the route answers -32600 exactly when jsonrpc is not "2.0" or the id
\* is missing; a request with jsonrpc "2.0" and a string or number as id
\* passes validation; a request answered -32600 has not invoked the agent.
C21_InvalidRequestExactly ==
    requestBody.type = "object" =>
      /\ routePc = "responded" =>
           (IsInvalidRequest <=>
              (requestBody.jsonrpc # Str("2.0")
                 \/ requestBody.id.type \in { "undefined", "null" }))
      /\ (requestBody.jsonrpc = Str("2.0") /\ requestBody.id.type \in { "string", "number" })
           => ~IsInvalidRequest
      /\ IsInvalidRequest => generateCalls = 0

-----------------------------------------------------------------------------
(* a2aCommunicationTool.execute *)

\* const maxAttempts = 30
maxAttempts == 30

\* task.status.state of a task of the target agent.
TaskStates == { "running", "completed", "failed", "canceled" }

\* task.status.message: absent, without a text part, or with one.
StatusMessages ==
    { UNDEFINED,
      [type |-> "object", text |-> UNDEFINED],
      [type |-> "object", text |-> Str("Yes, Light said that.")] }

Tasks == [id : { "task-1" }, state : TaskStates, message : StatusMessages]

\* What sendMessage and getTask give back: a rejected promise, an error
\* response, a message (sendMessage only) or a task.
PollOutcomes ==
    { [kind |-> "throws"], [kind |-> "error"] } \cup { [kind |-> "task", task |-> t] : t \in Tasks }

SendOutcomes == PollOutcomes \cup { [kind |-> "message"] }

\* The outcome as written to the request log.
outcomeName(outcome) == IF outcome.kind = "task" THEN outcome.task.state ELSE outcome.kind

A2AContexts ==
    [targetAgentId : { "animeAgent" }, message : { "is this quote real?" },
     waitForResponse : BOOLEAN]

failure(error) ==
    [success |-> FALSE, error |-> Str(error), agentResponse |-> UNDEFINED, taskId |-> UNDEFINED]

success(agentResponse, taskId) ==
    [success |-> TRUE, error |-> UNDEFINED, agentResponse |-> Str(agentResponse),
     taskId |-> Str(taskId)]

\* message.parts?.find((part) => part.kind === 'text')?.text
textOf(message) == IF message.type = "object" THEN message.text ELSE UNDEFINED

\* As keepPolling, with attempts <= maxAttempts.
keepPollingOnceMore(task, n) == task.state = "running" /\ n <= maxAttempts

\* currentTask.status.state === 'running' && attempts < maxAttempts
keepPolling(task, n) == task.state = "running" /\ n < maxAttempts

\* The returns after the while loop.
afterPolling(task) ==
    IF task.state = "completed" /\ JsTruthy(task.message)
    THEN success(IF JsTruthy(textOf(task.message)) THEN textOf(task.message).val
                 ELSE "No response text available", task.id)
    ELSE success("Task completed but no response text available", task.id)

\* "Return immediate response"
immediate(task) ==
    success(IF JsTruthy(textOf(task.message)) THEN textOf(task.message).val
            ELSE "Message sent successfully", task.id)

InitA2A ==
    /\ tool = "a2aCommunicationTool"
    /\ context \in A2AContexts
    /\ toolPc = "execute"
    /\ quotes = <<>>
    /\ toolResult = NoResult
    /\ currentTask = NoTask
    /\ attempts = 0
    /\ requests = <<>>
    /\ WorkflowIdle
    /\ RouteIdle

\* import('@mastra/client-js') and a2aClient.getCard()
A2AGetCard ==
    /\ tool = "a2aCommunicationTool"
    /\ toolPc = "execute"
    /\ \E outcome \in { "import-fails", "throws", "ok" } :
         /\ requests' = IF outcome = "import-fails" THEN requests
                        ELSE Append(requests, [dimension |-> "getCard", outcome |-> outcome])
         /\ CASE outcome = "import-fails" ->
                   /\ toolResult' = failure("@mastra/client-js package is required")
                   /\ toolPc' = "returned"
              [] outcome = "throws" ->
                   /\ toolResult' = failure("Agent not found or not accessible")
                   /\ toolPc' = "returned"
              [] outcome = "ok" ->
                   /\ toolResult' = toolResult
                   /\ toolPc' = "send"
    /\ UNCHANGED <<tool, context, quotes, currentTask, attempts>>
    /\ UNCHANGED <<workflowVars, upstream, apiFormat, routeVars>>

\* a2aClient.sendMessage(...) and the handling of its response, up to the
\* while loop.
A2ASendMessage ==
    /\ tool = "a2aCommunicationTool"
    /\ toolPc = "send"
    /\ \E outcome \in SendOutcomes :
         /\ requests' = Append(requests, [dimension |-> "sendMessage",
                                          outcome |-> outcomeName(outcome)])
         /\ CASE outcome.kind = "throws" ->
                   /\ toolResult' = failure("fetch failed")
                   /\ toolPc' = "returned"
                   /\ currentTask' = currentTask
              [] outcome.kind = "error" ->
                   /\ toolResult' = failure("Failed to send message to agent")
                   /\ toolPc' = "returned"
                   /\ currentTask' = currentTask
              [] outcome.kind = "message" ->
                   /\ toolResult' = success(IF context.waitForResponse
                                            THEN "Message sent, waiting for response..."
                                            ELSE "Message sent successfully", "msg-1")
                   /\ toolPc' = "returned"
                   /\ currentTask' = currentTask
              [] outcome.kind = "task" ->
                   /\ currentTask' = outcome.task
                   /\ IF context.waitForResponse /\ outcome.task.state = "running"
                      THEN toolPc' = "polling" /\ toolResult' = toolResult
                      ELSE toolPc' = "returned" /\ toolResult' = immediate(outcome.task)
    /\ UNCHANGED <<tool, context, quotes, attempts>>
    /\ UNCHANGED <<workflowVars, upstream, apiFormat, routeVars>>

\* One turn of the while loop: wait, getTask, and either return on an error
\* or take the task and count the attempt.
A2APoll ==
    /\ tool = "a2aCommunicationTool"
    /\ toolPc = "polling"
    /\ keepPolling(currentTask, attempts)
    /\ \E outcome \in PollOutcomes :
         /\ requests' = Append(requests, [dimension |-> "getTask",
                                          outcome |-> outcomeName(outcome)])
         /\ CASE outcome.kind = "throws" ->
                   /\ toolResult' = failure("fetch failed")
                   /\ toolPc' = "returned"
                   /\ UNCHANGED <<currentTask, attempts>>
              [] outcome.kind = "error" ->
                   /\ toolResult' = failure("Task not found")
                   /\ toolPc' = "returned"
                   /\ UNCHANGED <<currentTask, attempts>>
              [] outcome.kind = "task" ->
                   /\ currentTask' = outcome.task
                   /\ attempts' = attempts + 1
                   /\ UNCHANGED <<toolResult, toolPc>>
    /\ UNCHANGED <<tool, context, quotes>>
    /\ UNCHANGED <<workflowVars, upstream, apiFormat, routeVars>>

\* The loop has ended: the returns at its foot.
A2AAfterPolling ==
    /\ tool = "a2aCommunicationTool"
    /\ toolPc = "polling"
    /\ ~keepPolling(currentTask, attempts)
    /\ toolResult' = afterPolling(currentTask)
    /\ toolPc' = "returned"
    /\ UNCHANGED <<tool, context, quotes, currentTask, attempts, requests>>
    /\ UNCHANGED <<workflowVars, upstream, apiFormat, routeVars>>

NextA2A == A2AGetCard \/ A2ASendMessage \/ A2APoll \/ A2AAfterPolling

SpecA2A == InitA2A /\ [][NextA2A]_vars

-----------------------------------------------------------------------------
(* Properties of a2aCommunicationTool *)

a2aReturned == tool = "a2aCommunicationTool" /\ toolPc = "returned"

\* sendMessage was answered with a task in state running.
StartedRunning ==
    \E i \in RequestsOf("sendMessage") : requests[i].outcome = "running"

\* C29: called with waitForResponse = true on a task that starts running,
\* the tool reports success only if the last state it saw of the task is
\* completed; a task still running after the polls, or failed or canceled,
\* is not reported as a success or as 'Task completed'.
C29_SuccessOnlyIfCompleted ==
    (a2aReturned /\ context.waitForResponse /\ StartedRunning /\ toolResult.success)
      => currentTask.state = "completed"

\* C30: the polling loop issues at most 30 getTask polls; every poll before
\* the last one saw the task running; a poll that returns an error ends the
\* call with success = false and that error; the call never throws, and
\* until it has returned it has a step to take.
C30_PollingTerminates ==
    tool = "a2aCommunicationTool" =>
      /\ Cardinality(RequestsOf("getTask")) <= 30
      /\ attempts <= 30
      /\ \A i \in RequestsOf("getTask") :
           i < Len(requests) => requests[i].outcome = "running"
      /\ (requests # <<>> /\ requests[Len(requests)] = [dimension |-> "getTask",
                                                        outcome |-> "error"])
           => (/\ toolPc = "returned"
               /\ toolResult.success = FALSE
               /\ toolResult.error = Str("Task not found"))
      /\ (toolPc = "polling" /\ (currentTask.state # "running" \/ attempts = 30))
           => ~ENABLED A2APoll
      /\ toolPc # "thrown"
      /\ toolPc # "returned" => ENABLED NextA2A

\* The task was still running at each of the 30 polls, and the call returned.
C30_Witness ==
    /\ a2aReturned
    /\ Cardinality(RequestsOf("getTask")) = 30
    /\ attempts = 30
    /\ currentTask.state = "running"

====
